---- MODULE Spec2Model ----
(***************************************************************************)
(* Model of the signaling relay in src/src/server.ts: the three in-memory  *)
(* maps (rooms, userIdToSocketIdMap, socketIdToUserIdMap), the transport's *)
(* room subscriptions of every socket, and the four transport events       *)
(* connection, join-room, signal and disconnect.  Each handler runs to     *)
(* completion (single-threaded event loop), so each is one action.         *)
(***************************************************************************)
EXTENDS Integers, Sequences, FiniteSets, TLC

\* ------------------------------------------------------------------ bounds
\* number of connections the transport ever creates
MaxHandles == 2

\* number of join-room events the model follows
MaxJoins == 2

\* ------------------------------------------------------------ input values
HandleNames == <<"h1", "h2", "h3", "h4">>

\* socket.id values handed out by the transport
Handles == {HandleNames[i] : i \in 1..MaxHandles}

\* userId strings a client may send ("" is a string like any other)
UserIds == {"", "alice", "bob"}

\* roomId strings a client may send; a client may send any string,
\* a socket id included
RoomIds == {"r1", HandleNames[1]}

\* filler for the fields a message or an event record does not carry
Null == "null"

NoPayload == [type |-> Null, senderUserId |-> Null, targetUserId |-> Null, roomId |-> Null]

\* the value of an argument or a field the client left out
Undefined == "undefined"

\* join-room arguments and signal payloads of a client that leaves fields out
MalformedUserIds == {Undefined, "alice"}

MalformedRoomIds == {Undefined, "r1"}

MalformedPayloads == [type : {"offer"}, senderUserId : {"alice"},
                      targetUserId : {Undefined, "alice"}, roomId : {"r1"}]

\* payloads of the signal event
Payloads == [type : {"offer"}, senderUserId : {"alice"},
             targetUserId : UserIds, roomId : {"r1"}]

VARIABLES
    status,                \* socket.id -> "new" | "connected" | "disconnected"
    socketRooms,           \* socket.id -> transport rooms the socket is in
    rooms,                 \* Map<roomId, Set<userId>>, a Set in insertion order
    userIdToSocketIdMap,   \* Map<userId, socketId>
    socketIdToUserIdMap,   \* Map<socketId, userId>
    emitted,               \* messages delivered by the last event
    last,                  \* the last event handled
    joins,                 \* join-room events handled so far
    twin                   \* a second run fed the same events with other room ids:
                           \* its transport rooms and the signals it last delivered

vars == <<status, socketRooms, rooms, userIdToSocketIdMap, socketIdToUserIdMap, emitted, last, joins, twin>>

\* ------------------------------------------------------------ Map and Set
MapSet(m, k, v) == [x \in DOMAIN m \cup {k} |-> IF x = k THEN v ELSE m[x]]

MapDelete(m, k) == [x \in DOMAIN m \ {k} |-> m[x]]

MapHas(m, k) == k \in DOMAIN m

EmptyMap == [x \in {} |-> Null]

Elems(s) == {s[i] : i \in 1..Len(s)}

\* an array push in place of Set.prototype.add
SetAdd_Push(s, x) == Append(s, x)

\* Set.prototype.add: appends unless present
SetAdd(s, x) == IF x \in Elems(s) THEN s ELSE Append(s, x)

\* Set.prototype.delete
SetDelete(s, x) == SelectSeq(s, LAMBDA y : y # x)

\* usersInThisRoom.filter(id => id !== userId)
FilterOthers(s, userId) == SelectSeq(s, LAMBDA id : id # userId)

\* JavaScript truthiness of a looked-up string: undefined and "" are falsy
Truthy(m, k) == MapHas(m, k) /\ m[k] \notin {"", Undefined}

\* ---------------------------------------------------------------- transport
\* the sockets currently in a transport room
InRoom(sr, room) == {h \in Handles : room \in sr[h]}

\* socket.to(room): everyone in the room except the emitting socket
SocketTo(sr, h, room) == InRoom(sr, room) \ {h}

\* io.to(room): everyone in the room
IoTo(sr, room) == InRoom(sr, room)

Msg(to, event, userId, users, payload) ==
    [to |-> to, event |-> event, userId |-> userId, users |-> users, payload |-> payload]

Event(op, h, roomId, userId, payload) ==
    [op |-> op, socket |-> h, roomId |-> roomId, userId |-> userId, payload |-> payload]

\* ------------------------------------------------------------------- Init
Init ==
    /\ status = [h \in Handles |-> "new"]
    /\ socketRooms = [h \in Handles |-> {}]
    /\ rooms = EmptyMap
    /\ userIdToSocketIdMap = EmptyMap
    /\ socketIdToUserIdMap = EmptyMap
    /\ emitted = {}
    /\ last = Event("init", Null, Null, Null, NoPayload)
    /\ joins = 0
    /\ twin = [socketRooms |-> [h \in Handles |-> {}], signals |-> {}]

\* io.on('connection'): the transport puts the socket in the room of its own id
OnConnection(h) ==
    /\ status[h] = "new"
    /\ status' = [status EXCEPT ![h] = "connected"]
    /\ socketRooms' = [socketRooms EXCEPT ![h] = {h}]
    /\ emitted' = {}
    /\ last' = Event("connection", h, Null, Null, NoPayload)
    /\ UNCHANGED <<rooms, userIdToSocketIdMap, socketIdToUserIdMap, joins>>

\* rooms after lines 58-62
RoomsAfterJoin(rm, roomId, userId) ==
    MapSet(rm, roomId, SetAdd(IF MapHas(rm, roomId) THEN rm[roomId] ELSE <<>>, userId))

\* recipients of user-joined, line 72
JoinBroadcastTo(sr, h, roomId) == SocketTo(sr, h, roomId)

\* socket.on('join-room')
OnJoinRoom(h, roomId, userId) ==
    /\ status[h] = "connected"
    /\ joins < MaxJoins
    /\ joins' = joins + 1
    /\ socketRooms' = [socketRooms EXCEPT ![h] = @ \cup {roomId}]
    /\ userIdToSocketIdMap' = MapSet(userIdToSocketIdMap, userId, h)
    /\ socketIdToUserIdMap' = MapSet(socketIdToUserIdMap, h, userId)
    /\ rooms' = RoomsAfterJoin(rooms, roomId, userId)
    /\ emitted' =
          {Msg(h, "existing-users", Null, FilterOthers(rooms'[roomId], userId), NoPayload)}
          \cup {Msg(t, "user-joined", userId, <<>>, NoPayload) :
                    t \in JoinBroadcastTo(socketRooms', h, roomId)}
    /\ last' = Event("join-room", h, roomId, userId, NoPayload)
    /\ UNCHANGED status

\* the signal relay falling back to io.emit when the target is unknown
SignalTo_Fallback(sr, fwd, targetUserId) ==
    IF MapHas(fwd, targetUserId) /\ fwd[targetUserId] # ""
    THEN IoTo(sr, fwd[targetUserId])
    ELSE {h \in Handles : sr[h] # {}}

\* recipients of a relayed signal, lines 86-94
SignalTo(sr, fwd, targetUserId) ==
    IF MapHas(fwd, targetUserId) /\ fwd[targetUserId] # ""
    THEN IoTo(sr, fwd[targetUserId])
    ELSE {}

\* a signal handler that also binds the sender's identity to its socket
OnSignal_BindsSender(h, payload) ==
    /\ status[h] = "connected"
    /\ emitted' = {Msg(t, "signal", Null, <<>>, payload) :
                      t \in SignalTo(socketRooms, userIdToSocketIdMap, payload.targetUserId)}
    /\ last' = Event("signal", h, Null, Null, payload)
    /\ userIdToSocketIdMap' = MapSet(userIdToSocketIdMap, payload.senderUserId, h)
    /\ UNCHANGED <<status, socketRooms, rooms, socketIdToUserIdMap, joins>>

\* socket.on('signal')
OnSignal(h, payload) ==
    /\ status[h] = "connected"
    /\ emitted' = {Msg(t, "signal", Null, <<>>, payload) :
                      t \in SignalTo(socketRooms, userIdToSocketIdMap, payload.targetUserId)}
    /\ last' = Event("signal", h, Null, Null, payload)
    /\ UNCHANGED <<status, socketRooms, rooms, userIdToSocketIdMap, socketIdToUserIdMap, joins>>

\* the forEach of lines 107-121 without the deletion of an emptied room
RoomsAfterLeave_KeepEmpty(rm, userId) == [r \in DOMAIN rm |-> SetDelete(rm[r], userId)]

\* rooms after the forEach of lines 107-121
RoomsAfterLeave(rm, userId) ==
    [r \in {x \in DOMAIN rm : SetDelete(rm[x], userId) # <<>>} |-> SetDelete(rm[r], userId)]

\* the rooms the forEach removes userId from
AffectedRooms(rm, userId) == {r \in DOMAIN rm : userId \in Elems(rm[r])}

\* lines 99-104 with the lookup defaulted to "" and no test of the result
ForwardAfterDisconnect_DefaultId(fwd, rev, h) ==
    MapDelete(fwd, IF MapHas(rev, h) THEN rev[h] ELSE "")

\* userIdToSocketIdMap after lines 101-104
ForwardAfterDisconnect(fwd, rev, h) ==
    IF Truthy(rev, h) THEN MapDelete(fwd, rev[h]) ELSE fwd

\* socket.on('disconnect'): the transport has already taken the socket out
\* of every transport room when the handler runs
OnDisconnect(h) ==
    /\ status[h] = "connected"
    /\ status' = [status EXCEPT ![h] = "disconnected"]
    /\ UNCHANGED joins
    /\ socketRooms' = [socketRooms EXCEPT ![h] = {}]
    /\ userIdToSocketIdMap' = ForwardAfterDisconnect(userIdToSocketIdMap, socketIdToUserIdMap, h)
    /\ IF Truthy(socketIdToUserIdMap, h)
       THEN LET disconnectedUserId == socketIdToUserIdMap[h] IN
            /\ socketIdToUserIdMap' = MapDelete(socketIdToUserIdMap, h)
            /\ rooms' = RoomsAfterLeave(rooms, disconnectedUserId)
            /\ emitted' = {Msg(t, "user-left", disconnectedUserId, <<>>, NoPayload) :
                              t \in UNION {SocketTo(socketRooms', h, r) :
                                             r \in AffectedRooms(rooms, disconnectedUserId)}}
            /\ last' = Event("disconnect", h, Null, disconnectedUserId, NoPayload)
       ELSE /\ emitted' = {}
            /\ last' = Event("disconnect", h, Null, Null, NoPayload)
            /\ UNCHANGED <<rooms, socketIdToUserIdMap>>

\* the four events of a single run
Connect(h) == OnConnection(h) /\ UNCHANGED twin

JoinRoom(h, roomId, userId) == OnJoinRoom(h, roomId, userId) /\ UNCHANGED twin

Signal(h, payload) == OnSignal(h, payload) /\ UNCHANGED twin

Disconnect(h) == OnDisconnect(h) /\ UNCHANGED twin

Next ==
    \/ \E h \in Handles : Connect(h)
    \/ \E h \in Handles, roomId \in RoomIds, userId \in UserIds : JoinRoom(h, roomId, userId)
    \/ \E h \in Handles, payload \in Payloads : Signal(h, payload)
    \/ \E h \in Handles : Disconnect(h)

Spec == Init /\ [][Next]_vars

\* the same handlers, driven by clients that leave fields out
NextMalformed ==
    \/ \E h \in Handles : Connect(h)
    \/ \E h \in Handles, roomId \in MalformedRoomIds, userId \in MalformedUserIds :
          JoinRoom(h, roomId, userId)
    \/ \E h \in Handles, payload \in MalformedPayloads : Signal(h, payload)
    \/ \E h \in Handles : Disconnect(h)

SpecMalformed == Init /\ [][NextMalformed]_vars

\* ------------------------------------------------ join-room, line by line
\* the statements of the join-room handler in the order of lines 54-72 with
\* the broadcast moved up in front of the bind
JoinSteps_BroadcastFirst == <<"subscribe", "broadcast", "bind", "add", "snapshot">>

\* the statements of the join-room handler in the order of lines 54-72:
\* socket.join (54), the two Map.set (55-56), the rooms update (58-62),
\* existing-users (64-69), user-joined (72)
JoinSteps == <<"subscribe", "bind", "add", "snapshot", "broadcast">>

\* last.op while a join-room handler has run its first k statements
JoinOps == <<"join-room/1", "join-room/2", "join-room/3", "join-room/4">>

InJoin == last.op \in Elems(JoinOps)

StepsDone == CHOOSE k \in 1..Len(JoinOps) : JoinOps[k] = last.op

\* one statement of the join-room handler; em are the messages the event
\* has delivered so far
JoinEffect(step, h, roomId, userId, em) ==
    /\ socketRooms' = IF step = "subscribe"
                      THEN [socketRooms EXCEPT ![h] = @ \cup {roomId}]
                      ELSE socketRooms
    /\ userIdToSocketIdMap' = IF step = "bind"
                              THEN MapSet(userIdToSocketIdMap, userId, h)
                              ELSE userIdToSocketIdMap
    /\ socketIdToUserIdMap' = IF step = "bind"
                              THEN MapSet(socketIdToUserIdMap, h, userId)
                              ELSE socketIdToUserIdMap
    /\ rooms' = IF step = "add" THEN RoomsAfterJoin(rooms, roomId, userId) ELSE rooms
    /\ emitted' =
          CASE step = "snapshot" ->
                 em \cup {Msg(h, "existing-users", Null,
                              FilterOthers(IF MapHas(rooms, roomId) THEN rooms[roomId] ELSE <<>>,
                                           userId), NoPayload)}
            [] step = "broadcast" ->
                 em \cup {Msg(t, "user-joined", userId, <<>>, NoPayload) :
                             t \in JoinBroadcastTo(socketRooms, h, roomId)}
            [] OTHER -> em

\* the join-room event arrives and the handler runs its first statement
JoinBegin(h, roomId, userId) ==
    /\ ~InJoin
    /\ status[h] = "connected"
    /\ joins < MaxJoins
    /\ JoinEffect(JoinSteps[1], h, roomId, userId, {})
    /\ last' = Event(JoinOps[1], h, roomId, userId, NoPayload)
    /\ UNCHANGED <<status, joins, twin>>

\* the handler runs its next statement; after the last one the event is done
JoinStep ==
    /\ InJoin
    /\ LET k == StepsDone + 1 IN
       /\ JoinEffect(JoinSteps[k], last.socket, last.roomId, last.userId, emitted)
       /\ last' = [last EXCEPT !.op = IF k = Len(JoinSteps) THEN "join-room" ELSE JoinOps[k]]
       /\ joins' = IF k = Len(JoinSteps) THEN joins + 1 ELSE joins
    /\ UNCHANGED <<status, twin>>

\* the event loop takes the next event only when no handler is running
StepConnect(h) == ~InJoin /\ Connect(h)

StepSignal(h, payload) == ~InJoin /\ Signal(h, payload)

StepDisconnect(h) == ~InJoin /\ Disconnect(h)

NextSteps ==
    \/ \E h \in Handles : StepConnect(h)
    \/ \E h \in Handles, roomId \in RoomIds, userId \in UserIds : JoinBegin(h, roomId, userId)
    \/ JoinStep
    \/ \E h \in Handles, payload \in Payloads : StepSignal(h, payload)
    \/ \E h \in Handles : StepDisconnect(h)

SpecSteps == Init /\ [][NextSteps]_vars

\* ------------------------------------------------------- two runs at once
\* The second run receives the same events from the same sockets with the
\* same userIds and payloads; only the room id of a join-room may differ.
\* status and the two registry maps are written from the socket and the
\* userId alone (lines 55-56, 99-104), so both runs share them; the second
\* run's transport rooms are kept in twin.
TwinRooms(sr, h, joined) == [sr EXCEPT ![h] = joined]

TwinConnect(h) ==
    /\ OnConnection(h)
    /\ twin' = [socketRooms |-> TwinRooms(twin.socketRooms, h, {h}), signals |-> {}]

TwinJoinRoom(h, roomId, roomId2, userId) ==
    /\ OnJoinRoom(h, roomId, userId)
    /\ twin' = [socketRooms |-> TwinRooms(twin.socketRooms, h, twin.socketRooms[h] \cup {roomId2}),
                signals |-> {}]

TwinSignal(h, payload) ==
    /\ OnSignal(h, payload)
    /\ twin' = [twin EXCEPT !.signals =
                  {Msg(t, "signal", Null, <<>>, payload) :
                      t \in SignalTo(twin.socketRooms, userIdToSocketIdMap, payload.targetUserId)}]

TwinDisconnect(h) ==
    /\ OnDisconnect(h)
    /\ twin' = [socketRooms |-> TwinRooms(twin.socketRooms, h, {}), signals |-> {}]

NextTwin ==
    \/ \E h \in Handles : TwinConnect(h)
    \/ \E h \in Handles, roomId \in RoomIds, roomId2 \in RoomIds, userId \in UserIds :
          TwinJoinRoom(h, roomId, roomId2, userId)
    \/ \E h \in Handles, payload \in Payloads : TwinSignal(h, payload)
    \/ \E h \in Handles : TwinDisconnect(h)

SpecTwin == Init /\ [][NextTwin]_vars

TypeOK ==
    /\ status \in [Handles -> {"new", "connected", "disconnected"}]
    /\ \A h \in Handles : socketRooms[h] \subseteq RoomIds \cup Handles
    /\ DOMAIN rooms \subseteq RoomIds
    /\ DOMAIN userIdToSocketIdMap \subseteq UserIds
    /\ DOMAIN socketIdToUserIdMap \subseteq Handles
\* ------------------------------------------------------------ properties
Resolves(u) == MapHas(userIdToSocketIdMap, u)

Live(h) == status[h] = "connected"

\* the step is the disconnect handler of h
IsDisconnectOf(h) == status[h] = "connected" /\ status'[h] = "disconnected"

\* the step is the join-room handler of h with userId u
IsJoinOf(h, u) == joins' = joins + 1 /\ last'.socket = h /\ last'.userId = u

SignalMsg(t, payload) == Msg(t, "signal", Null, <<>>, payload)

\* C1: when h2 issues join-room with the identity u that the still connected
\* h1 is bound to, resolve(u) is h2 afterwards; and when h1 then disconnects
\* while u resolves to the connected h2, u -> h2 and h2 -> u both stay.
C1_RebindSurvivesDisconnect ==
    [][\A h1 \in Handles : \A h2 \in Handles \ {h1} : \A u \in UserIds :
        /\ (/\ Live(h1) /\ MapHas(socketIdToUserIdMap, h1) /\ socketIdToUserIdMap[h1] = u
            /\ IsJoinOf(h2, u))
           => (MapHas(userIdToSocketIdMap', u) /\ userIdToSocketIdMap'[u] = h2)
        /\ (/\ IsDisconnectOf(h1)
            /\ MapHas(socketIdToUserIdMap, h1) /\ socketIdToUserIdMap[h1] = u
            /\ Live(h2) /\ Resolves(u) /\ userIdToSocketIdMap[u] = h2
            /\ MapHas(socketIdToUserIdMap, h2) /\ socketIdToUserIdMap[h2] = u)
           => (/\ MapHas(userIdToSocketIdMap', u) /\ userIdToSocketIdMap'[u] = h2
               /\ MapHas(socketIdToUserIdMap', h2) /\ socketIdToUserIdMap'[h2] = u)]_vars

\* C2: the forward and the reverse map agree in every reachable state:
\* userIdToSocketIdMap[u] = h exactly when socketIdToUserIdMap[h] = u.
C2_RegistryAgreement ==
    \A u \in UserIds, h \in Handles :
        (MapHas(userIdToSocketIdMap, u) /\ userIdToSocketIdMap[u] = h)
        <=> (MapHas(socketIdToUserIdMap, h) /\ socketIdToUserIdMap[h] = u)

\* C3: every identity in a room's membership set is bound to a connection
\* that is still connected (so an identity only a disconnected connection
\* joined with is in no room).
C3_MembersAreLive ==
    \A r \in DOMAIN rooms : \A u \in Elems(rooms[r]) :
        Resolves(u) /\ Live(userIdToSocketIdMap[u])

\* C4: a signal whose target resolves is delivered, unmodified, to the
\* connection resolve(targetUserId) and to no other connection.
C4_SignalExactUnicast ==
    (last.op = "signal" /\ Resolves(last.payload.targetUserId))
    => emitted = {SignalMsg(userIdToSocketIdMap[last.payload.targetUserId], last.payload)}

\* C5: after the disconnect of a connection bound to u, u is in no room, no
\* room whose only member was u is left, and in every affected room that
\* still has members the connection of each remaining member got user-left{u}.
C5_DisconnectCleanup ==
    [][\A h \in Handles :
        (IsDisconnectOf(h) /\ MapHas(socketIdToUserIdMap, h))
        => LET u == socketIdToUserIdMap[h] IN
           /\ \A r \in DOMAIN rooms' : u \notin Elems(rooms'[r])
           /\ \A r \in DOMAIN rooms : Elems(rooms[r]) = {u} => r \notin DOMAIN rooms'
           /\ \A r \in AffectedRooms(rooms, u) \cap DOMAIN rooms' :
                \A m \in Elems(rooms'[r]) :
                    (MapHas(userIdToSocketIdMap', m) /\ userIdToSocketIdMap'[m] # h)
                    => Msg(userIdToSocketIdMap'[m], "user-left", u, <<>>, NoPayload) \in emitted']_vars

\* C6: on join-room(roomId, u) by h, exactly h receives existing-users, its
\* list is the membership of roomId after the join without u and without
\* duplicates, and the connection of every other member of roomId receives
\* user-joined{u}.
C6_JoinOutputs ==
    last.op = "join-room" =>
        LET h == last.socket
            u == last.userId
            others == Elems(rooms[last.roomId]) \ {u}
            snapshots == {m \in emitted : m.event = "existing-users"}
        IN  /\ Cardinality(snapshots) = 1
            /\ \A m \in snapshots :
                  /\ m.to = h
                  /\ Elems(m.users) = others
                  /\ Len(m.users) = Cardinality(others)
            /\ \A o \in others :
                  (Resolves(o) /\ userIdToSocketIdMap[o] # h)
                  => Msg(userIdToSocketIdMap[o], "user-joined", u, <<>>, NoPayload) \in emitted

\* C7: the user-joined{u} of a join-room(roomId, u) reaches no connection
\* whose bound identity is u.
C7_BroadcastExclusion ==
    last.op = "join-room" =>
        \A m \in emitted :
            m.event = "user-joined"
            => ~(MapHas(socketIdToUserIdMap, m.to) /\ socketIdToUserIdMap[m.to] = last.userId)

\* C8: every room id present in the rooms directory has a non-empty
\* membership set.
C8_NoEmptyRooms == \A r \in DOMAIN rooms : rooms[r] # <<>>

\* a disconnect has cleaned up and the room it emptied is gone
C8_Witness ==
    /\ last.op = "disconnect" /\ last.userId # Null
    /\ joins > 0 /\ DOMAIN rooms = {}

\* C9: a signal whose target has no entry in the forward map delivers
\* nothing to any connection, the sender included, and leaves the maps, the
\* rooms and the connections as they were.
C9_UnresolvedSignalDropped ==
    [][(last'.op = "signal" /\ ~MapHas(userIdToSocketIdMap, last'.payload.targetUserId))
        => /\ emitted' = {}
           /\ UNCHANGED <<status, socketRooms, rooms, userIdToSocketIdMap, socketIdToUserIdMap>>]_vars

\* a signal to an unbound identity was handled while another identity is bound
C9_Witness ==
    /\ last.op = "signal" /\ ~Resolves(last.payload.targetUserId)
    /\ DOMAIN userIdToSocketIdMap # {} /\ DOMAIN rooms # {}
    /\ Live(last.socket) /\ emitted = {}

\* C10: every handle stored in the forward map belongs to a connection that
\* has connected and not yet disconnected.
C10_ResolveIsLive ==
    \A u \in DOMAIN userIdToSocketIdMap : Live(userIdToSocketIdMap[u])
\* C11: right after h binds u through join-room, resolve(u) is h; after the
\* disconnect of h, no identity that resolved to h resolves any more.
C11_RoutingCorrectness ==
    [][\A h \in Handles : \A u \in UserIds :
        /\ IsJoinOf(h, u)
           => (MapHas(userIdToSocketIdMap', u) /\ userIdToSocketIdMap'[u] = h)
        /\ (IsDisconnectOf(h) /\ Resolves(u) /\ userIdToSocketIdMap[u] = h)
           => ~MapHas(userIdToSocketIdMap', u)]_vars

\* C12: the disconnect of a connection that never issued join-room leaves
\* the forward map, the reverse map and the rooms as they were and delivers
\* no message.
C12_DisconnectBeforeJoin ==
    [][\A h \in Handles :
        (IsDisconnectOf(h) /\ ~MapHas(socketIdToUserIdMap, h))
        => /\ UNCHANGED <<rooms, userIdToSocketIdMap, socketIdToUserIdMap>>
           /\ emitted' = {}]_vars

\* a connection without a binding has disconnected while another
\* connection is bound and in a room
C12_Witness ==
    /\ last.op = "disconnect" /\ last.userId = Null
    /\ ~MapHas(socketIdToUserIdMap, last.socket)
    /\ \A u \in DOMAIN userIdToSocketIdMap : userIdToSocketIdMap[u] # last.socket
    /\ DOMAIN userIdToSocketIdMap # {} /\ DOMAIN rooms # {}
    /\ emitted = {}

\* C14: a join-room(r, u) that directly follows the same join-room(r, u) of
\* the same connection changes neither the rooms nor the two maps.
C14_JoinIdempotent ==
    [][(/\ last.op = "join-room" /\ joins' = joins + 1
        /\ last'.socket = last.socket /\ last'.roomId = last.roomId
        /\ last'.userId = last.userId)
       => UNCHANGED <<rooms, userIdToSocketIdMap, socketIdToUserIdMap>>]_vars

\* one connection has issued the same join-room twice and nothing else has
\* joined: the room holds the identity once
C14_Witness ==
    /\ joins = 2 /\ last.op = "join-room"
    /\ \A h \in Handles \ {last.socket} : status[h] = "new"
    /\ DOMAIN rooms = {last.roomId} /\ rooms[last.roomId] = <<last.userId>>
    /\ DOMAIN userIdToSocketIdMap = {last.userId}
    /\ socketRooms[last.socket] = {last.socket, last.roomId}

\* C15: the user-left{u} of a disconnect reaches exactly the connections of
\* the members that remain in the rooms u was removed from; when every such
\* room was emptied and deleted, nobody receives it.
C15_LeaveRecipients ==
    [][\A h \in Handles :
        (IsDisconnectOf(h) /\ Truthy(socketIdToUserIdMap, h))
        => LET u == socketIdToUserIdMap[h]
               kept == AffectedRooms(rooms, u) \cap DOMAIN rooms'
               remaining == UNION {Elems(rooms'[r]) : r \in kept}
               expected == {userIdToSocketIdMap'[m] :
                               m \in remaining \cap DOMAIN userIdToSocketIdMap'} \ {h}
           IN  {m.to : m \in emitted'} = expected]_vars

\* C17: a signal event, resolved or not, changes neither map, nor the
\* rooms, nor any transport subscription, and what it delivers is fixed by
\* the target's forward entry and the transport rooms alone, whoever sent it.
C17_SignalPureRouting ==
    [][last'.op = "signal"
       => /\ UNCHANGED <<status, socketRooms, rooms, userIdToSocketIdMap, socketIdToUserIdMap>>
          /\ LET t == last'.payload.targetUserId IN
             emitted' = {SignalMsg(x, last'.payload) :
                            x \in {y \in Handles :
                                     Resolves(t) /\ userIdToSocketIdMap[t] \in socketRooms[y]}}]_vars

\* a connection that never joined a room has sent a signal that was delivered
C17_Witness ==
    /\ last.op = "signal" /\ Live(last.socket)
    /\ ~MapHas(socketIdToUserIdMap, last.socket)
    /\ socketRooms[last.socket] = {last.socket}
    /\ emitted # {}

\* C18: when every connection that ever connected has disconnected, the
\* rooms, the forward map and the reverse map are empty.
C18_Quiescence ==
    ((\A h \in Handles : ~Live(h)) /\ (\E h \in Handles : status[h] = "disconnected"))
    => /\ DOMAIN rooms = {}
       /\ DOMAIN userIdToSocketIdMap = {}
       /\ DOMAIN socketIdToUserIdMap = {}

\* C19: on a join-room the identities listed in existing-users are the
\* identities bound to the connections that receive user-joined.
C19_SymmetricDiscovery ==
    last.op = "join-room" =>
        LET listed == UNION {Elems(m.users) : m \in {x \in emitted : x.event = "existing-users"}}
            notified == {m.to : m \in {x \in emitted : x.event = "user-joined"}}
        IN  listed = {socketIdToUserIdMap[t] : t \in notified \cap DOMAIN socketIdToUserIdMap}
\* C13: a join-room without userId or roomId, or a signal without
\* targetUserId, changes neither map nor the rooms and delivers nothing to
\* a connection other than its sender.
C13_MalformedRejected ==
    [][(\/ /\ joins' = joins + 1
           /\ (last'.userId = Undefined \/ last'.roomId = Undefined)
        \/ /\ last'.op = "signal"
           /\ last'.payload.targetUserId = Undefined)
       => /\ UNCHANGED <<rooms, userIdToSocketIdMap, socketIdToUserIdMap>>
          /\ \A m \in emitted' : m.to = last'.socket]_vars
\* C16: within a join-room event the bind comes first, then the membership,
\* then existing-users, then user-joined: user-joined{u} is emitted only
\* where u is already in the room and the forward map gives the joiner for
\* u, and no other event's handler runs in between.
C16_JoinOrdering ==
    [][/\ \A m \in emitted' \ emitted :
            m.event = "user-joined"
            => /\ InJoin
               /\ MapHas(rooms, last.roomId) /\ m.userId \in Elems(rooms[last.roomId])
               /\ Resolves(m.userId) /\ userIdToSocketIdMap[m.userId] = last.socket
               /\ \E x \in emitted : x.event = "existing-users" /\ x.to = last.socket
       /\ \A m \in emitted' \ emitted :
            m.event = "existing-users"
            => /\ InJoin
               /\ MapHas(rooms, last.roomId) /\ last.userId \in Elems(rooms[last.roomId])
       /\ (InJoin /\ rooms' # rooms)
            => (Resolves(last.userId) /\ userIdToSocketIdMap[last.userId] = last.socket)
       /\ InJoin
            => /\ last'.socket = last.socket /\ last'.roomId = last.roomId
               /\ last'.userId = last.userId
               /\ last'.op \in Elems(JoinOps) \cup {"join-room"}
               /\ status' = status]_vars

\* a join-room has run statement by statement to its end and its
\* user-joined reached another connection
C16_Witness ==
    /\ last.op = "join-room"
    /\ \E m \in emitted : m.event = "user-joined" /\ m.userId = last.userId /\ m.to # last.socket
    /\ \E m \in emitted : m.event = "existing-users" /\ m.to = last.socket /\ m.users # <<>>
\* C20: of two runs that differ only in the room ids passed to join-room,
\* both deliver every signal to the same connections.
C20_RoomsDoNotSteerSignals ==
    last.op = "signal" => {m \in emitted : m.event = "signal"} = twin.signals
====
